---- MODULE Spec2Model ----
(***************************************************************************)
(* One voice session of src/src/websocket/llmServer.js: the connection     *)
(* handler, the inbound frame handlers, the promise-chain serializer       *)
(* (_enqueueGeneration), the greeting task (handleGreeting), the turn task *)
(* (handleTranscript) and the cancellable stream call (generateWithAbort). *)
(*                                                                         *)
(* JavaScript runs one callback at a time.  A step of the model is either  *)
(* one macrotask (an inbound frame, the close event, a provider/database   *)
(* event, the timer) or one promise reaction (a queued task starting, a    *)
(* catch block, the serializer's catch).  Promise reactions run before the *)
(* next macrotask, so every macrotask is guarded by Quiescent.             *)
(*                                                                         *)
(* A task's AbortController is identified with the task's position in      *)
(* tasks: every task owns exactly one controller.  Texts are sequences of  *)
(* characters.                                                             *)
(***************************************************************************)
EXTENDS Integers, Sequences, FiniteSets, TLC

\* ---- bounds of the model
MaxTurns == 2
MaxFaults == 1

VARIABLES
  wsState,          \* ws.readyState: CONNECTING, OPEN, CLOSING, CLOSED
  closeCode,        \* the code the server gave ws.close (0 = it has not called it)
  tasks,            \* the links of session.generationQueue, in enqueue order
  history,          \* session.history
  isGenerating,     \* session.isGenerating
  abortController,  \* session.abortController (0 = null, else the owning task)
  aborted,          \* the controllers whose signal.aborted is true
  out,              \* the frames written by ws.send, in order
  faults,           \* how many failures the environment has injected so far
  requests,         \* the POST /api/v1/webhooks/retell requests, in arrival order
  log,              \* what the webhook handlers did, in order
  jobs,             \* the jobs in the order queue
  calls,            \* the generateWithAbort calls made, each with its promise
  abortedSignals,   \* the signals of those calls on which abort() was called
  conns,            \* the connections the 'connection' handler was run for
  work,             \* the jobs of the order queue as the worker sees them
  rows              \* the response_ids of the turns whose insert stored a row

vars == <<wsState, closeCode, tasks, history, isGenerating, abortController,
          aborted, out, faults>>

\* the orders and reservations tables, looked at only where a claim is about
\* what the dispatcher stored
pvars == <<rows>>

\* the state of the HTTP webhook route, which shares nothing with a voice session
hvars == <<requests, log, jobs>>

\* the state of generateWithAbort calls looked at on their own
gvars == <<calls, abortedSignals>>

\* the state of the connection handler looked at on its own
cvars == <<conns>>

\* the state of the order queue's worker looked at on its own
wvars == <<work>>

\* what a step of the voice session leaves alone
apart == <<hvars, gvars, cvars, wvars>>

\* ---- data

Sp == " "

UserEntry(c) == [role |-> "user", content |-> c]
AgentEntry(c) == [role |-> "agent", content |-> c]

NoTranscript == [ok |-> TRUE, entries |-> <<>>]

\* msg.transcript values the transport can send; ok = FALSE is a value whose
\* .filter / .role / .trim access throws a TypeError.
Transcripts ==
  { [ok |-> TRUE, entries |-> <<UserEntry(<<Sp, "h">>), AgentEntry(<<"k">>)>>],
    [ok |-> TRUE, entries |-> <<UserEntry(<<"h">>), UserEntry(<<Sp>>)>>],
    [ok |-> TRUE, entries |-> <<AgentEntry(<<"k">>)>>],
    [ok |-> FALSE, entries |-> <<>>] }

TextPart(t) == [kind |-> "text", text |-> t, name |-> ""]
CallPart(fn) == [kind |-> "functionCall", text |-> <<>>, name |-> fn]

\* the chunk sequences the provider can stream: text in three chunks, the
\* middle one with an empty text; a tool call; text and a tool call together
Streams ==
  { << <<TextPart(<<"a">>)>>, <<TextPart(<<>>)>>, <<TextPart(<<"b">>)>> >>,
    << <<CallPart("get_menu")>> >>,
    << <<TextPart(<<"b">>), CallPart("place_order")>> >> }

DbTools == {"place_order", "make_reservation"}

UserTurn(t) ==
  [role |-> "user", kind |-> "text", text |-> t, name |-> "", payload |-> ""]
ModelTextTurn(t) ==
  [role |-> "model", kind |-> "text", text |-> t, name |-> "", payload |-> ""]
ModelCallTurn(fn) ==
  [role |-> "model", kind |-> "functionCall", text |-> <<>>, name |-> fn, payload |-> ""]
FnResponseAsModel(fn, p) ==
  [role |-> "model", kind |-> "functionResponse", text |-> <<>>, name |-> fn, payload |-> p]
FnResponseTurn(fn, p) ==
  [role |-> "user", kind |-> "functionResponse", text |-> <<>>, name |-> fn, payload |-> p]

NUDGE == <<"n">>
APOLOGY == <<"s">>
FALLBACK_GREETING == <<"g">>

Frame(rid, content, complete) ==
  [response_id |-> rid, content |-> content, content_complete |-> complete]

\* ---- pure helpers

RECURSIVE TrimLeft(_)
TrimLeft(s) == IF s # <<>> /\ Head(s) = Sp THEN TrimLeft(Tail(s)) ELSE s

RECURSIVE TrimRight(_)
TrimRight(s) ==
  IF s # <<>> /\ s[Len(s)] = Sp THEN TrimRight(SubSeq(s, 1, Len(s) - 1)) ELSE s

NoTrim(s) == s
Trim(s) == TrimRight(TrimLeft(s))

IsUser(e) == e.role = "user"

\* transcript.filter(t => t.role === 'user').at(-1)?.content?.trim() ?? ''
UserTextOf(tr) ==
  LET us == SelectSeq(tr.entries, IsUser)
  IN IF us = <<>> THEN <<>> ELSE Trim(us[Len(us)].content)

RECURSIVE textFromChunk(_)
textFromChunk(chunk) ==
  IF chunk = <<>> THEN <<>>
  ELSE (IF Head(chunk).kind = "text" THEN Head(chunk).text ELSE <<>>)
       \o textFromChunk(Tail(chunk))

IsCall(p) == p.kind = "functionCall"

\* turn1Parts.find(p => p.functionCall != null) over the aggregated parts:
\* the first call part of the stream so far
FirstCall(fc, chunk) ==
  LET cs == SelectSeq(chunk, IsCall)
  IN IF fc # "none" THEN fc ELSE IF cs = <<>> THEN "none" ELSE cs[1].name

\* sendChunk
sendChunk(o, rid, content, complete) ==
  IF wsState # "OPEN" THEN o ELSE Append(o, Frame(rid, content, complete))

\* sendChunk(ws, responseId, text, false)
PartialAsFinal(o, rid, text) == sendChunk(o, rid, text, TRUE)
PartialFrame(o, rid, text) == sendChunk(o, rid, text, FALSE)

\* session.history.length = historyCheckpoint
NoRollback(h, cp) == h
RollbackToEmpty(h, cp) == <<>>
Rollback(h, cp) == SubSeq(h, 1, cp)

\* session.isGenerating = false in the finally blocks
KeepLock == isGenerating
ReleaseLock == FALSE

\* ---- tasks

GreetingNumberedOne ==
  [kind |-> "greeting", rid |-> 1, transcript |-> NoTranscript, pc |-> "queued",
   checkpoint |-> 0, text |-> <<>>, phase |-> 0, fc |-> "none", stream |-> <<>>,
   err |-> "none", stalled |-> FALSE, exit |-> "none", base |-> <<>>,
   barged |-> FALSE]
GreetingTask ==
  [kind |-> "greeting", rid |-> 0, transcript |-> NoTranscript, pc |-> "queued",
   checkpoint |-> 0, text |-> <<>>, phase |-> 0, fc |-> "none", stream |-> <<>>,
   err |-> "none", stalled |-> FALSE, exit |-> "none", base |-> <<>>,
   barged |-> FALSE]

TurnTask(rid, tr) ==
  [kind |-> "turn", rid |-> rid, transcript |-> tr, pc |-> "queued",
   checkpoint |-> 0, text |-> <<>>, phase |-> 0, fc |-> "none", stream |-> <<>>,
   err |-> "none", stalled |-> FALSE, exit |-> "none", base |-> <<>>,
   barged |-> FALSE]

\* barged is a record of the past, not a field of the program: a genuine
\* barge-in was handled while this task was executing.
\* a settled link keeps only what the task left behind
DoneTask(t, exit) ==
  [t EXCEPT !.pc = "done", !.exit = exit, !.transcript = NoTranscript,
            !.checkpoint = 0, !.text = <<>>, !.phase = 0, !.fc = "none",
            !.stream = <<>>, !.err = "none", !.stalled = FALSE, !.base = <<>>,
            !.barged = FALSE]

Ids == DOMAIN tasks

\* .then(() => taskFn()) runs once the previous link has settled
CanStartUnchained(i) == tasks[i].pc = "queued"
CanStartEarly(i) ==
  /\ tasks[i].pc = "queued"
  /\ (IF i = 1 THEN TRUE ELSE tasks[i - 1].pc \notin {"queued", "gen"})
CanStart(i) ==
  /\ tasks[i].pc = "queued"
  /\ (IF i = 1 THEN TRUE ELSE tasks[i - 1].pc = "done")

MicroPending ==
  \E i \in Ids : tasks[i].pc \in {"catch", "rejected"} \/ CanStart(i)

Quiescent == ~MicroPending

Executing(i) == tasks[i].pc \in {"gen", "stream", "resp", "tool", "catch"}

\* ---- initial state: the socket before the connection handler has run

Init ==
  /\ wsState = "CONNECTING"
  /\ closeCode = 0
  /\ tasks = <<>>
  /\ history = <<>>
  /\ isGenerating = FALSE
  /\ abortController = 0
  /\ aborted = {}
  /\ out = <<>>
  /\ faults = 0
  /\ rows = {}
  /\ requests = <<>>
  /\ log = <<>>
  /\ jobs = {}
  /\ calls = <<>>
  /\ abortedSignals = {}
  /\ conns = <<>>
  /\ work = <<>>

\* the environment may inject one more failure (a provider error, a timeout, a
\* stall, a database or socket exception, a malformed frame)
MayFail == faults < MaxFaults

\* ---- connection handler

\* the agent_id of the URL: absent, or one for which the stores table has no
\* row, a row with is_active false, null or true, or cannot be read
Agents == {"missing", "unknown", "inactive", "unflagged", "known", "unreachable"}

\* what supabase...single() returns for an agent_id: { data, error }
StoreRow(agent) ==
  CASE agent = "known"     -> [error |-> "none", is_active |-> "true"]
    [] agent = "unflagged" -> [error |-> "none", is_active |-> "null"]
    [] agent = "inactive"  -> [error |-> "none", is_active |-> "false"]
    [] agent = "unknown"   -> [error |-> "PGRST116", is_active |-> "null"]
    [] OTHER               -> [error |-> "other", is_active |-> "null"]

Null == [error |-> "null", is_active |-> "null"]

\* if (data.is_active === false) return null
Truthy(row) == row.is_active = "true"
NotStrictlyFalse(row) == row.is_active # "false"

\* fetchStoreData(agentId): the row, or null for an error of either kind and
\* for a row whose is_active is exactly false
fetchStoreData(agent) ==
  LET row == StoreRow(agent) IN
  IF row.error # "none" THEN Null
  ELSE IF ~NotStrictlyFalse(row) THEN Null
  ELSE row

\* if (!agentId) ... if (!storeData): the two early returns of the handler
NoSession(agent) == agent = "missing" \/ fetchStoreData(agent) = Null

\* ws.close(1008, ...) and ws.close(1003, ...)
POLICY_VIOLATION == 1008
UNSUPPORTED_DATA == 1003

\* wss.on('connection'): reject without agent_id or store, else create the
\* session and enqueue the greeting
Connect(agent) ==
  /\ wsState = "CONNECTING"
  /\ IF ~NoSession(agent)
       THEN /\ wsState' = "OPEN"
            /\ closeCode' = closeCode
            /\ tasks' = <<GreetingTask>>
       ELSE /\ wsState' = "CLOSED"
            /\ closeCode' = POLICY_VIOLATION
            /\ tasks' = tasks
  /\ history' = <<>>
  /\ isGenerating' = FALSE
  /\ abortController' = 0
  /\ UNCHANGED <<aborted, out, faults>>

\* ---- AbortController.abort()

\* abort() on a fresh signal sets signal.aborted and runs the onAbort listener
\* that a pending generateWithAbort registered: its promise rejects with an
\* AbortError at once.  abort() on an aborted signal does nothing.
AbortTasks(tok) ==
  IF tok \in Ids /\ tok \notin aborted /\ tasks[tok].pc = "gen"
    THEN [tasks EXCEPT ![tok].pc = "catch", ![tok].err = "abort"]
    ELSE tasks

\* ---- message handler

Turntakings == {"user_turn", "agent_turn", "absent"}

\* a frame is handled: the socket delivers frames while OPEN, and a macrotask
\* runs only when no promise reaction is pending
FramesOpen ==
  /\ wsState = "OPEN"
  /\ Quiescent

\* if (session.isGenerating && session.abortController && msg.turntaking === 'user_turn')
BargeInOnAnyUpdate(tt) == isGenerating /\ abortController # 0
BargeInCond(tt) == isGenerating /\ abortController # 0 /\ tt = "user_turn"

\* the tasks running when the barge-in branch is taken are marked
MarkBarged(ts) ==
  [j \in DOMAIN ts |->
     IF tasks[j].pc \in {"gen", "stream", "resp", "tool"}
       THEN [ts[j] EXCEPT !.barged = TRUE] ELSE ts[j]]

UpdateOnly(tt) ==
  /\ FramesOpen
  /\ IF BargeInCond(tt)
       THEN /\ aborted' = aborted \cup {abortController}
            /\ tasks' = MarkBarged(AbortTasks(abortController))
       ELSE UNCHANGED <<aborted, tasks>>
  /\ UNCHANGED <<wsState, closeCode, history, isGenerating, abortController, out, faults>>

\* the controllers the response_required branch aborts: none
AbortsPrevious == IF abortController # 0 THEN {abortController} ELSE {}
AbortedByResponseRequired == {}

\* response_id of the next response_required: the transport numbers its
\* requests 1, 2, ...
NextResponseId == Len(tasks)

TurnsEnqueued == Cardinality({i \in Ids : tasks[i].kind = "turn"})

ResponseRequired(tr) ==
  /\ FramesOpen
  /\ TurnsEnqueued < MaxTurns
  /\ tr.ok \/ MayFail
  /\ faults' = IF tr.ok THEN faults ELSE faults + 1
  /\ abortController' = Len(tasks) + 1
  /\ tasks' = Append(tasks, TurnTask(NextResponseId, tr))
  /\ aborted' = aborted \cup AbortedByResponseRequired
  /\ UNCHANGED <<wsState, closeCode, history, isGenerating, out>>

\* ping, call_ended, ...: ignored
OtherFrame ==
  /\ FramesOpen
  /\ UNCHANGED vars

\* a handler that, besides closing, cancels the current generation
NonJsonFrameAborts ==
  /\ FramesOpen
  /\ MayFail
  /\ faults' = faults + 1
  /\ wsState' = "CLOSING"
  /\ closeCode' = UNSUPPORTED_DATA
  /\ IF abortController # 0
       THEN /\ aborted' = aborted \cup {abortController}
            /\ tasks' = AbortTasks(abortController)
       ELSE UNCHANGED <<aborted, tasks>>
  /\ UNCHANGED <<history, isGenerating, abortController, out>>

\* a frame that JSON.parse rejects: ws.close(1003, 'Expected JSON'); return
NonJsonFrame ==
  /\ FramesOpen
  /\ MayFail
  /\ faults' = faults + 1
  /\ wsState' = "CLOSING"
  /\ closeCode' = UNSUPPORTED_DATA
  /\ UNCHANGED <<tasks, history, isGenerating, abortController, aborted, out>>

\* ---- close handler

Close ==
  /\ wsState \in {"OPEN", "CLOSING"}
  /\ Quiescent
  /\ wsState' = "CLOSED"
  /\ IF abortController # 0
       THEN /\ aborted' = aborted \cup {abortController}
            /\ tasks' = AbortTasks(abortController)
       ELSE UNCHANGED <<aborted, tasks>>
  /\ UNCHANGED <<closeCode, history, isGenerating, abortController, out, faults>>

\* signal.aborted, as the task that owns controller i reads it
SignalNeverAborted(i) == FALSE
SignalAborted(i) == i \in aborted

\* ---- shared pieces of the tasks

\* ws.send is only called on an OPEN socket; it may throw, and then the frame
\* is not written
WriteFaultPossible == wsState = "OPEN" /\ MayFail

\* generateWithAbort called by task i for stream number phase: rejects at once
\* when the signal is already aborted, else issues the request and waits
GenCall(t, i, phase) ==
  IF SignalAborted(i)
    THEN [t EXCEPT !.pc = "catch", !.err = "abort", !.phase = phase]
    ELSE [t EXCEPT !.pc = "gen", !.phase = phase, !.text = <<>>,
                   !.fc = "none", !.stream = <<>>]

\* a return (or the end of the catch block): the finally block runs and the
\* task's promise fulfils, which settles its link
Exit(i, exit, h, o) ==
  /\ tasks' = [tasks EXCEPT ![i] = DoneTask(@, exit)]
  /\ history' = h
  /\ out' = o
  /\ isGenerating' = ReleaseLock

\* an exception inside the try block: control moves to the catch block
Raise(i, err, h, o) ==
  /\ tasks' = [tasks EXCEPT ![i].pc = "catch", ![i].err = err]
  /\ history' = h
  /\ out' = o
  /\ isGenerating' = isGenerating

\* an exception that leaves the task: its promise rejects
Escape(i) == tasks' = [tasks EXCEPT ![i].pc = "rejected", ![i].transcript = NoTranscript]

\* ---- _enqueueGeneration: the next link's .then(() => taskFn())

\* handleGreeting up to its first await
StartGreeting(i) ==
  /\ CanStart(i)
  /\ tasks[i].kind = "greeting"
  /\ abortController' = i
  /\ isGenerating' = TRUE
  /\ tasks' = [tasks EXCEPT ![i] = GenCall(@, i, 1)]
  /\ UNCHANGED <<wsState, closeCode, history, aborted, out, faults>>

\* session.abortController !== controller: a newer frame replaced the token
\* this task captured when it was enqueued
NeverSuperseded(i) == FALSE
Superseded(i) == abortController # i

\* if (session.abortController !== controller) return Promise.resolve()
StartStale(i) ==
  /\ CanStart(i)
  /\ tasks[i].kind = "turn"
  /\ Superseded(i)
  /\ tasks' = [tasks EXCEPT ![i] = DoneTask(@, "stale")]
  /\ UNCHANGED <<wsState, closeCode, history, isGenerating, abortController, aborted, out,
                 faults>>

Fresh(i) ==
  /\ CanStart(i)
  /\ tasks[i].kind = "turn"
  /\ ~Superseded(i)

\* handleTranscript: transcript.filter(...) or .trim() throws before the try
StartMalformed(i) ==
  /\ Fresh(i)
  /\ ~tasks[i].transcript.ok
  /\ isGenerating' = TRUE
  /\ Escape(i)
  /\ UNCHANGED <<wsState, closeCode, history, abortController, aborted, out, faults>>

\* handleTranscript: empty user text, the nudge frame
StartNudge(i) ==
  /\ Fresh(i)
  /\ tasks[i].transcript.ok
  /\ UserTextOf(tasks[i].transcript) = <<>>
  /\ \/ /\ out' = sendChunk(out, tasks[i].rid, NUDGE, TRUE)
        /\ isGenerating' = FALSE
        /\ tasks' = [tasks EXCEPT ![i] = DoneTask(@, "nudge")]
        /\ faults' = faults
     \/ /\ WriteFaultPossible
        /\ out' = out
        /\ isGenerating' = TRUE
        /\ Escape(i)
        /\ faults' = faults + 1
  /\ UNCHANGED <<wsState, closeCode, history, abortController, aborted>>

\* handleTranscript: lock, checkpoint, push the user turn, first generateWithAbort
StartTurn(i) ==
  /\ Fresh(i)
  /\ tasks[i].transcript.ok
  /\ UserTextOf(tasks[i].transcript) # <<>>
  /\ isGenerating' = TRUE
  /\ history' = Append(history, UserTurn(UserTextOf(tasks[i].transcript)))
  /\ tasks' = [tasks EXCEPT ![i] =
                 GenCall([@ EXCEPT !.checkpoint = Len(history),
                                   !.base = history,
                                   !.transcript = NoTranscript], i, 1)]
  /\ UNCHANGED <<wsState, closeCode, abortController, aborted, out, faults>>

SafetyNetKeepsLock(i) ==
  /\ i \in Ids
  /\ tasks[i].pc = "rejected"
  /\ tasks' = [tasks EXCEPT ![i] = DoneTask(@, "threw")]
  /\ UNCHANGED <<wsState, closeCode, history, isGenerating, abortController, aborted, out,
                 faults>>

\* .catch((err) => { session.isGenerating = false; ... })
SafetyNet(i) ==
  /\ i \in Ids
  /\ tasks[i].pc = "rejected"
  /\ isGenerating' = FALSE
  /\ tasks' = [tasks EXCEPT ![i] = DoneTask(@, "threw")]
  /\ UNCHANGED <<wsState, closeCode, history, abortController, aborted, out, faults>>

\* ---- catch blocks

\* if (!signal.aborted && ws.readyState === ws.OPEN)
ApologyNever(i) == FALSE
ApologyIfOpen(i) == wsState = "OPEN"
ApologyCond(i) == ~SignalAborted(i) /\ wsState = "OPEN"

\* handleTranscript: catch (err) { rollback; AbortError ? log : apology } finally
CatchTurn(i) ==
  /\ i \in Ids
  /\ tasks[i].kind = "turn"
  /\ tasks[i].pc = "catch"
  /\ LET h == Rollback(history, tasks[i].checkpoint) IN
     \/ /\ tasks[i].err = "abort"
        /\ Exit(i, "aborted", h, out)
        /\ faults' = faults
     \/ /\ tasks[i].err = "other"
        /\ Exit(i, "error", h,
                IF ApologyCond(i)
                  THEN sendChunk(out, tasks[i].rid, APOLOGY, TRUE) ELSE out)
        /\ faults' = faults
     \/ /\ tasks[i].err = "other"
        /\ ApologyCond(i)
        /\ WriteFaultPossible
        /\ history' = h
        /\ out' = out
        /\ isGenerating' = ReleaseLock
        /\ Escape(i)
        /\ faults' = faults + 1
  /\ UNCHANGED <<wsState, closeCode, abortController, aborted>>

\* handleGreeting: catch (err) { AbortError ? log : static fallback } finally
CatchGreeting(i) ==
  /\ i \in Ids
  /\ tasks[i].kind = "greeting"
  /\ tasks[i].pc = "catch"
  /\ \/ /\ tasks[i].err = "abort"
        /\ Exit(i, "aborted", history, out)
        /\ faults' = faults
     \/ /\ tasks[i].err = "other"
        /\ Exit(i, "error", history, sendChunk(out, 0, FALLBACK_GREETING, TRUE))
        /\ faults' = faults
     \/ /\ tasks[i].err = "other"
        /\ WriteFaultPossible
        /\ history' = history
        /\ out' = out
        /\ isGenerating' = ReleaseLock
        /\ Escape(i)
        /\ faults' = faults + 1
  /\ UNCHANGED <<wsState, closeCode, abortController, aborted>>

\* ---- provider, database and timer events of a running task

Awaiting(i, pc) ==
  /\ Quiescent
  /\ i \in Ids
  /\ tasks[i].pc = pc

\* what the abort paths leave in history: the turn task truncates to its
\* checkpoint, the greeting never touches history
HistNotTruncated(i) == history
HistLastTurnRemoved(i) == SubSeq(history, 1, Len(history) - 1)
HistAfterAbort(i) ==
  IF tasks[i].kind = "turn" THEN Rollback(history, tasks[i].checkpoint)
  ELSE history

\* generateContentStream resolved first
GenResolve(i, st) ==
  /\ Awaiting(i, "gen")
  /\ tasks' = [tasks EXCEPT ![i].pc = "stream", ![i].stream = st]
  /\ UNCHANGED <<wsState, closeCode, history, isGenerating, abortController, aborted, out,
                 faults>>

\* generateContentStream rejected first
GenReject(i) ==
  /\ Awaiting(i, "gen")
  /\ MayFail
  /\ faults' = faults + 1
  /\ Raise(i, "other", history, out)
  /\ UNCHANGED <<wsState, closeCode, abortController, aborted>>

\* makeAbortError: the timer rejects with name = 'AbortError', the name the
\* abort listener uses
TimeoutAsError == "other"
TimeoutTag == "abort"

\* the GEMINI_TIMEOUT_MS timer fired first: reject(makeAbortError(...))
GenTimeout(i) ==
  /\ Awaiting(i, "gen")
  /\ MayFail
  /\ faults' = faults + 1
  /\ Raise(i, TimeoutTag, history, out)
  /\ UNCHANGED <<wsState, closeCode, abortController, aborted>>

\* if (text): an empty text is not sent
AlwaysSent(text) == TRUE
Sent(text) == text # <<>>

\* for await (const chunk of stream): one chunk arrives
StreamChunk(i) ==
  /\ Awaiting(i, "stream")
  /\ ~tasks[i].stalled
  /\ tasks[i].stream # <<>>
  /\ LET c == Head(tasks[i].stream)
         text == textFromChunk(c) IN
     \/ /\ SignalAborted(i)
        /\ Exit(i, "aborted", HistAfterAbort(i), out)
        /\ faults' = faults
     \/ /\ ~SignalAborted(i)
        /\ tasks' = [tasks EXCEPT ![i].stream = Tail(@),
                                  ![i].text = @ \o text,
                                  ![i].fc = FirstCall(@, c)]
        /\ out' = IF Sent(text) THEN PartialFrame(out, tasks[i].rid, text)
                  ELSE out
        /\ UNCHANGED <<history, isGenerating, faults>>
     \/ /\ ~SignalAborted(i)
        /\ Sent(text)
        /\ WriteFaultPossible
        /\ Raise(i, "other", history, out)
        /\ faults' = faults + 1
  /\ UNCHANGED <<wsState, closeCode, abortController, aborted>>

\* the stream is exhausted: the code after the loop
StreamEnd(i) ==
  /\ Awaiting(i, "stream")
  /\ ~tasks[i].stalled
  /\ tasks[i].stream = <<>>
  /\ LET t == tasks[i]
         committed == Append(history, ModelTextTurn(t.text)) IN
     \/ /\ SignalAborted(i)
        /\ Exit(i, "aborted", HistAfterAbort(i), out)
        /\ faults' = faults
     \/ /\ ~SignalAborted(i)
        /\ t.kind = "greeting"
        /\ Exit(i, "clean", history, sendChunk(out, 0, <<>>, TRUE))
        /\ faults' = faults
     \/ /\ ~SignalAborted(i)
        /\ t.kind = "turn" /\ t.phase = 1
        /\ tasks' = [tasks EXCEPT ![i].pc = "resp"]
        /\ UNCHANGED <<history, isGenerating, out, faults>>
     \/ /\ ~SignalAborted(i)
        /\ t.kind = "turn" /\ t.phase = 2
        /\ Exit(i, "clean", committed, sendChunk(out, t.rid, <<>>, TRUE))
        /\ faults' = faults
     \/ /\ ~SignalAborted(i)
        /\ t.kind = "greeting" \/ t.phase = 2
        /\ WriteFaultPossible
        /\ Raise(i, "other", IF t.kind = "turn" THEN committed ELSE history, out)
        /\ faults' = faults + 1
  /\ UNCHANGED <<wsState, closeCode, abortController, aborted>>

\* the stream iterator throws
StreamError(i) ==
  /\ Awaiting(i, "stream")
  /\ ~tasks[i].stalled
  /\ MayFail
  /\ faults' = faults + 1
  /\ Raise(i, "other", history, out)
  /\ UNCHANGED <<wsState, closeCode, abortController, aborted>>

\* the provider stops sending without ending the stream
StreamStall(i) ==
  /\ Awaiting(i, "stream")
  /\ ~tasks[i].stalled
  /\ MayFail
  /\ faults' = faults + 1
  /\ tasks' = [tasks EXCEPT ![i].stalled = TRUE]
  /\ UNCHANGED <<wsState, closeCode, history, isGenerating, abortController, aborted, out>>

\* executeFunctionCall for the tools that answer without I/O
SyncPayload(fn) ==
  CASE fn = "get_menu" -> "menu"
    [] fn \in {"check_order_status", "cancel_or_modify"} -> "under_construction"
    [] fn = "transfer_to_human" -> "transferring"
    [] OTHER -> "not_implemented"

\* await turn1.response resolved: text-only commit, or the function call
RespResolve(i) ==
  /\ Awaiting(i, "resp")
  /\ LET t == tasks[i]
         committed == Append(history, ModelTextTurn(t.text))
         called == Append(history, ModelCallTurn(t.fc)) IN
     \/ /\ SignalAborted(i)
        /\ Exit(i, "aborted", HistAfterAbort(i), out)
        /\ faults' = faults
     \/ /\ ~SignalAborted(i)
        /\ t.fc = "none"
        /\ Exit(i, "clean", committed, sendChunk(out, t.rid, <<>>, TRUE))
        /\ faults' = faults
     \/ /\ ~SignalAborted(i)
        /\ t.fc = "none"
        /\ WriteFaultPossible
        /\ Raise(i, "other", committed, out)
        /\ faults' = faults + 1
     \/ /\ ~SignalAborted(i)
        /\ t.fc \in DbTools
        /\ history' = called
        /\ tasks' = [tasks EXCEPT ![i].pc = "tool"]
        /\ UNCHANGED <<isGenerating, out, faults>>
     \/ /\ ~SignalAborted(i)
        /\ t.fc \notin DbTools \cup {"none"}
        /\ history' = Append(called, FnResponseTurn(t.fc, SyncPayload(t.fc)))
        /\ tasks' = [tasks EXCEPT ![i] = GenCall(@, i, 2)]
        /\ UNCHANGED <<isGenerating, out, faults>>
  /\ UNCHANGED <<wsState, closeCode, abortController, aborted>>

\* await turn1.response rejected
RespReject(i) ==
  /\ Awaiting(i, "resp")
  /\ MayFail
  /\ faults' = faults + 1
  /\ Raise(i, "other", history, out)
  /\ UNCHANGED <<wsState, closeCode, abortController, aborted>>

DbPayloads == {"success", "failure"}

\* fnArgs as the provider sends it: an object, or nothing
ArgKinds == {"present", "missing"}

\* what the insert does: answers with a row, answers with an error, rejects
DbOutcomes == {"row", "error", "rejected"}

Thrown == [threw |-> TRUE, payload |-> ""]
Returned(p) == [threw |-> FALSE, payload |-> p]

\* the tools whose branch reads a property of fnArgs
ReadsArgs == {"place_order", "make_reservation", "transfer_to_human"}

\* executeFunctionCall: no branch has a try/catch, so a TypeError on a missing
\* fnArgs and a rejected insert leave the function as exceptions
executeFunctionCall(fn, args, db) ==
  IF fn \in ReadsArgs /\ args = "missing" THEN Thrown
  ELSE IF fn \notin DbTools THEN Returned(SyncPayload(fn))
  ELSE IF db = "rejected" THEN Thrown
  ELSE IF db = "error" THEN Returned("failure")
  ELSE Returned("success")

\* .insert(...).select('id').single() answered without an error: the row is
\* stored, and the payload is the success payload
Inserted(fn, p) == fn \in DbTools /\ p = "success"

\* what the insert of task i has done to the tables when it answers with p
InsertStored(i, p) ==
  rows' = IF Inserted(tasks[i].fc, p) THEN rows \cup {tasks[i].rid} ELSE rows

\* the insert answered with a row or with an error: the code after
\* await executeFunctionCall
ToolReturn(i, p) ==
  /\ Awaiting(i, "tool")
  /\ \E args \in ArgKinds, db \in DbOutcomes :
       executeFunctionCall(tasks[i].fc, args, db) = Returned(p)
  /\ \/ /\ SignalAborted(i)
        /\ Exit(i, "aborted", HistAfterAbort(i), out)
     \/ /\ ~SignalAborted(i)
        /\ history' = Append(history, FnResponseTurn(tasks[i].fc, p))
        /\ tasks' = [tasks EXCEPT ![i] = GenCall(@, i, 2)]
        /\ UNCHANGED <<isGenerating, out>>
  /\ UNCHANGED <<wsState, closeCode, abortController, aborted, faults>>

\* the insert call rejected: executeFunctionCall throws
ToolThrow(i) ==
  /\ Awaiting(i, "tool")
  /\ \E args \in ArgKinds, db \in DbOutcomes :
       executeFunctionCall(tasks[i].fc, args, db).threw
  /\ MayFail
  /\ faults' = faults + 1
  /\ Raise(i, "other", history, out)
  /\ UNCHANGED <<wsState, closeCode, abortController, aborted>>

\* ---- specification

Next ==
  \/ \E a \in Agents : Connect(a) /\ UNCHANGED <<apart, pvars>>
  \/ \E tt \in Turntakings : UpdateOnly(tt) /\ UNCHANGED <<apart, pvars>>
  \/ \E tr \in Transcripts : ResponseRequired(tr) /\ UNCHANGED <<apart, pvars>>
  \/ OtherFrame /\ UNCHANGED <<apart, pvars>>
  \/ NonJsonFrame /\ UNCHANGED <<apart, pvars>>
  \/ Close /\ UNCHANGED <<apart, pvars>>
  \/ \E i \in Ids : StartGreeting(i) /\ UNCHANGED <<apart, pvars>>
  \/ \E i \in Ids : StartStale(i) /\ UNCHANGED <<apart, pvars>>
  \/ \E i \in Ids : StartMalformed(i) /\ UNCHANGED <<apart, pvars>>
  \/ \E i \in Ids : StartNudge(i) /\ UNCHANGED <<apart, pvars>>
  \/ \E i \in Ids : StartTurn(i) /\ UNCHANGED <<apart, pvars>>
  \/ \E i \in Ids : SafetyNet(i) /\ UNCHANGED <<apart, pvars>>
  \/ \E i \in Ids : CatchTurn(i) /\ UNCHANGED <<apart, pvars>>
  \/ \E i \in Ids : CatchGreeting(i) /\ UNCHANGED <<apart, pvars>>
  \/ \E i \in Ids, st \in Streams : GenResolve(i, st) /\ UNCHANGED <<apart, pvars>>
  \/ \E i \in Ids : GenReject(i) /\ UNCHANGED <<apart, pvars>>
  \/ \E i \in Ids : GenTimeout(i) /\ UNCHANGED <<apart, pvars>>
  \/ \E i \in Ids : StreamChunk(i) /\ UNCHANGED <<apart, pvars>>
  \/ \E i \in Ids : StreamEnd(i) /\ UNCHANGED <<apart, pvars>>
  \/ \E i \in Ids : StreamError(i) /\ UNCHANGED <<apart, pvars>>
  \/ \E i \in Ids : StreamStall(i) /\ UNCHANGED <<apart, pvars>>
  \/ \E i \in Ids : RespResolve(i) /\ UNCHANGED <<apart, pvars>>
  \/ \E i \in Ids : RespReject(i) /\ UNCHANGED <<apart, pvars>>
  \/ \E i \in Ids, p \in DbPayloads : ToolReturn(i, p) /\ UNCHANGED <<apart, pvars>>
  \/ \E i \in Ids : ToolThrow(i) /\ UNCHANGED <<apart, pvars>>

Spec == Init /\ [][Next]_vars

\* the same program under the scheduling the event loop and the timer give:
\* pending promise reactions run, the race inside generateWithAbort settles
\* (the timer fires at the latest), a stream that has not stalled delivers its
\* next chunk or ends, and the response and the database call answer
FairSpec ==
  /\ Spec
  /\ WF_vars(\E i \in Ids : StartGreeting(i))
  /\ WF_vars(\E i \in Ids : StartStale(i))
  /\ WF_vars(\E i \in Ids : StartMalformed(i))
  /\ WF_vars(\E i \in Ids : StartNudge(i))
  /\ WF_vars(\E i \in Ids : StartTurn(i))
  /\ WF_vars(\E i \in Ids : SafetyNet(i))
  /\ WF_vars(\E i \in Ids : CatchTurn(i))
  /\ WF_vars(\E i \in Ids : CatchGreeting(i))
  /\ WF_vars(\E i \in Ids :
               (\E st \in Streams : GenResolve(i, st)) \/ GenReject(i) \/ GenTimeout(i))
  /\ WF_vars(\E i \in Ids : StreamChunk(i) \/ StreamEnd(i))
  /\ WF_vars(\E i \in Ids : RespResolve(i))
  /\ WF_vars(\E i \in Ids, p \in DbPayloads : ToolReturn(i, p))

\* ---- properties

\* the link of task i has settled and no later task has started: the
\* serializer is about to start the next queued task, or is idle
SerializerIdle(i) ==
  /\ tasks[i].pc = "done"
  /\ \A j \in Ids : j > i => tasks[j].pc = "queued"

\* C1 (freeze prevention): whichever way a turn task left handleTranscript
\* (clean, nudge, stale skip, cancellation, timeout, provider error, send
\* exception), is_generating is false once its link has settled, before the
\* serializer starts the next queued task.
C1_FreezePrevention ==
  \A i \in Ids :
    (tasks[i].kind = "turn" /\ SerializerIdle(i)) => isGenerating = FALSE

\* a turn task ended in its catch block with another turn still queued
C1_Witness ==
  \E i \in Ids :
    /\ tasks[i].kind = "turn"
    /\ SerializerIdle(i)
    /\ tasks[i].exit \in {"error", "threw"}
    /\ i < Len(tasks)
    /\ isGenerating = FALSE

\* C2 (freeze-freedom): whenever is_generating is true it eventually becomes
\* false again, whatever the provider does, a stall between chunks included.
C2_FreezeFreedom == isGenerating ~> ~isGenerating

\* C3 (mutual exclusion): at most one task is past its start and not yet
\* settled, and between callbacks is_generating is true exactly while a task
\* is executing.
C3_MutualExclusion ==
  /\ Cardinality({i \in Ids : tasks[i].pc \notin {"queued", "done"}}) <= 1
  /\ Quiescent => (isGenerating <=> \E i \in Ids : Executing(i))

\* a task is streaming while the next one waits in the queue
C3_Witness ==
  \E i \in Ids :
    /\ tasks[i].pc = "stream"
    /\ i < Len(tasks)
    /\ tasks[i + 1].pc = "queued"
    /\ isGenerating

\* C4 (serializer ordering): a task has started only if every task submitted
\* before it has settled, and every frame of an earlier task precedes every
\* frame of a later one.
C4_SerializerOrdering ==
  /\ \A i, j \in Ids :
       (i < j /\ tasks[j].pc # "queued") => tasks[i].pc = "done"
  /\ \A p, q \in DOMAIN out :
       p < q => out[p].response_id <= out[q].response_id

\* two consecutive turns have both written frames
C4_Witness ==
  \E p, q \in DOMAIN out :
    /\ p < q
    /\ out[p].response_id = 1
    /\ out[q].response_id = 2

\* history alternates from a user turn, and every tool call is followed at
\* once by the result of the same tool
WellFormed(h) ==
  /\ h # <<>> => h[1].role = "user"
  /\ \A k \in 1..(Len(h) - 1) : h[k].role # h[k + 1].role
  /\ \A k \in 1..Len(h) :
       h[k].kind = "functionCall" =>
         /\ k < Len(h)
         /\ h[k + 1].kind = "functionResponse"
         /\ h[k + 1].name = h[k].name

\* C5 (history consistency): whenever no task is executing, history is
\* well formed.
C5_HistoryConsistency ==
  (\A i \in Ids : tasks[i].pc \in {"queued", "done"}) => WellFormed(history)

\* a turn with a tool call has been committed and nothing is running
C5_Witness ==
  /\ \A i \in Ids : tasks[i].pc \in {"queued", "done"}
  /\ Len(history) = 4
  /\ history[2].kind = "functionCall"
  /\ history[3].kind = "functionResponse"

\* C6 (rollback atomicity): when a turn task leaves through cancellation,
\* timeout or a provider error, the step that releases it leaves history
\* exactly as it was at the task's checkpoint.
C6_RollbackAtomicity ==
  [][\A i \in Ids :
       (/\ tasks[i].kind = "turn"
        /\ Executing(i)
        /\ Len(tasks') = Len(tasks)
        /\ tasks'[i].pc = "done"
        /\ tasks'[i].exit \in {"aborted", "error"})
       => (/\ Len(history') = tasks[i].checkpoint
           /\ history' = tasks[i].base)]_vars

\* the second turn streamed partial frames, was released by cancellation or an
\* error, and history holds the first turn only
C6_Witness ==
  /\ Len(tasks) = 3
  /\ tasks[3].pc = "done"
  /\ tasks[3].exit \in {"aborted", "error"}
  /\ tasks[2].exit = "clean"
  /\ Len(history) = 2
  /\ \E p \in DOMAIN out : out[p].response_id = 2 /\ ~out[p].content_complete

C8_NoStaleWrites ==
  [][(Len(out') > Len(out) /\ out'[Len(out')].response_id > 0) =>
       abortController = out'[Len(out')].response_id + 1]_vars

C11_GreetingCancelled ==
  [][/\ (Len(out') > Len(out) /\ out'[Len(out')].response_id = 0) =>
          abortController \in {0, 1}
     /\ \A i \in Ids :
          (tasks[i].kind = "greeting" /\ Executing(i) /\ ~Executing(i)') =>
            history' = <<>>]_vars

\* the frames written so far for response_id rid
FramesOf(rid) == SelectSeq(out, LAMBDA f : f.response_id = rid)

FinalsOf(rid) == SelectSeq(out, LAMBDA f : f.response_id = rid /\ f.content_complete)

\* C12 (barge-in scenario): once a barge-in has cancelled the token of the
\* running turn X on an open socket, X writes no further frame and releases
\* with history as it was before X; a turn released by cancellation has no
\* final frame; and a turn Y that then completes on the open socket leaves the
\* history it started from extended by its own turns and has exactly one
\* final frame.
C12_BargeInScenario ==
  /\ [][\A i \in Ids :
          (tasks[i].kind = "turn" /\ Executing(i) /\ i \in aborted
             /\ wsState = "OPEN") =>
            /\ out' = out
            /\ tasks'[i].pc \in {"done", "catch", tasks[i].pc}
            /\ tasks'[i].pc = "done" =>
                 (tasks'[i].exit \in {"aborted", "error"}
                    /\ history' = tasks[i].base)]_vars
  /\ [][\A i \in Ids :
          (tasks[i].kind = "turn" /\ Executing(i) /\ tasks'[i].pc = "done"
             /\ tasks'[i].exit = "clean") =>
            /\ Len(history') \in {tasks[i].checkpoint + 2, tasks[i].checkpoint + 4}
            /\ SubSeq(history', 1, tasks[i].checkpoint) = tasks[i].base]_vars
  /\ [](\A i \in Ids :
          tasks[i].kind = "turn" =>
            /\ tasks[i].exit = "aborted" => FinalsOf(tasks[i].rid) = <<>>
            /\ (tasks[i].exit = "clean" /\ wsState = "OPEN") =>
                 Len(FinalsOf(tasks[i].rid)) = 1)

\* turn X (response_id 1) wrote a partial frame and was cancelled, turn Y
\* (response_id 2) then completed with partial frames and its final frame on
\* the history X left behind
C12_Witness ==
  /\ Len(tasks) = 3
  /\ wsState = "OPEN"
  /\ 2 \in aborted
  /\ tasks[2].exit = "aborted"
  /\ Len(FramesOf(1)) > 0
  /\ tasks[3].exit = "clean"
  /\ Len(FramesOf(2)) > 1
  /\ Len(FinalsOf(2)) = 1
  /\ Len(history) = 2
  /\ faults = 0

\* task i sits in its catch block with an AbortError that no abort() caused:
\* the timer of generateWithAbort fired
TimedOut(i) ==
  /\ tasks[i].kind = "turn"
  /\ tasks[i].pc = "catch"
  /\ tasks[i].err = "abort"
  /\ i \notin aborted

C14_ErrorClasses ==
  [][\A i \in Ids :
       (tasks[i].kind = "turn" /\ tasks[i].pc = "catch") =>
         /\ history' = tasks[i].base
         /\ tasks[i].err = "abort" => out' = out
         /\ (tasks[i].err = "other" /\ tasks'[i].pc = "done") =>
              out' = IF i \notin aborted /\ wsState = "OPEN"
                       THEN Append(out, Frame(tasks[i].rid, APOLOGY, TRUE))
                       ELSE out
         /\ (tasks[i].err = "other" /\ tasks'[i].pc # "done") =>
              (i \notin aborted /\ wsState = "OPEN" /\ out' = out
                 /\ tasks'[i].pc = "rejected")]_vars

\* a turn failed in mid-stream with a provider error and apologised
C14_Witness ==
  \E i \in Ids :
    /\ tasks[i].kind = "turn"
    /\ tasks[i].exit = "error"
    /\ Len(FramesOf(tasks[i].rid)) > 1
    /\ out[Len(out)] = Frame(tasks[i].rid, APOLOGY, TRUE)
    /\ Len(FinalsOf(tasks[i].rid)) = 1

\* C15 (the tool dispatcher never raises): the await of executeFunctionCall
\* never ends in the catch block; whatever the tool, its arguments and the
\* outcome of the insert, the turn goes on with a payload.
C15_DispatcherNeverRaises ==
  [][\A i \in Ids :
       tasks[i].pc = "tool" =>
         ~(tasks'[i].pc = "catch" /\ tasks'[i].err = "other")]_vars

\* the three turns a tool call has put above the checkpoint cp of history h:
\* user text, model tool call of fn, user tool result of fn
ToolTurns(h, cp, fn) ==
  /\ Len(h) >= cp + 3
  /\ h[cp + 1].role = "user" /\ h[cp + 1].kind = "text"
  /\ h[cp + 2].role = "model" /\ h[cp + 2].kind = "functionCall"
  /\ h[cp + 2].name = fn
  /\ h[cp + 3].role = "user" /\ h[cp + 3].kind = "functionResponse"
  /\ h[cp + 3].name = fn

\* C16 (two-phase tool flow): when the tool call of an uncancelled turn
\* returns, with a success or a failure payload alike, the turn enters phase 2
\* on history extended by user text, tool call and tool result; when phase 2
\* completes, the final frame is written and history is the history at the
\* checkpoint plus exactly four turns: user text, model tool call, user tool
\* result, model phase-2 text.
C16_TwoPhaseToolFlow ==
  [][\A i \in Ids :
       tasks[i].kind = "turn" =>
         /\ \A p \in DbPayloads :
              (ToolReturn(i, p) /\ i \notin aborted) =>
                /\ tasks'[i].pc = "gen" /\ tasks'[i].phase = 2
                /\ Len(history') = tasks[i].checkpoint + 3
                /\ ToolTurns(history', tasks[i].checkpoint, tasks[i].fc)
                /\ history'[Len(history')].payload = p
         /\ (tasks[i].pc \in {"resp", "tool"} /\ tasks'[i].pc = "gen") =>
              /\ tasks'[i].phase = 2
              /\ Len(history') = tasks[i].checkpoint + 3
              /\ ToolTurns(history', tasks[i].checkpoint, tasks[i].fc)
              /\ SubSeq(history', 1, tasks[i].checkpoint) = tasks[i].base
         /\ (tasks[i].pc = "stream" /\ tasks[i].phase = 2
               /\ tasks'[i].pc = "done" /\ tasks'[i].exit = "clean") =>
              /\ Len(history') = tasks[i].checkpoint + 4
              /\ SubSeq(history', 1, tasks[i].checkpoint) = tasks[i].base
              /\ ToolTurns(history', tasks[i].checkpoint, history[tasks[i].checkpoint + 2].name)
              /\ history'[Len(history')].role = "model"
              /\ history'[Len(history')].kind = "text"
              /\ history'[Len(history')].text = tasks[i].text
              /\ wsState = "OPEN" =>
                   out' = Append(out, Frame(tasks[i].rid, <<>>, TRUE))]_vars

\* a turn whose insert failed has voiced the failure in phase 2 and committed
\* its four turns
C16_Witness ==
  /\ Len(tasks) = 2
  /\ tasks[2].exit = "clean"
  /\ Len(history) = 4
  /\ history[2].name = "place_order"
  /\ history[3].payload = "failure"
  /\ history[4].role = "model"
  /\ Len(FinalsOf(1)) = 1

Blank(s) == \A k \in 1..Len(s) : s[k] = Sp

\* the transcript has no user entry, or its last user entry is blank
EmptyUtterance(tr) ==
  LET us == SelectSeq(tr.entries, LAMBDA e : e.role = "user")
  IN us = <<>> \/ Blank(us[Len(us)].content)

\* C17 (empty transcript): a turn task that starts with its token current and
\* a transcript without user text issues no LLM call and leaves history
\* unchanged; it writes exactly one frame, the final nudge frame with its
\* response_id, and releases is_generating; the nudge is then the only frame
\* of that response_id.
C17_EmptyTranscript ==
  /\ [][\A i \in Ids :
          (CanStart(i) /\ tasks[i].kind = "turn" /\ abortController = i
             /\ tasks[i].transcript.ok /\ EmptyUtterance(tasks[i].transcript)) =>
            /\ history' = history
            /\ tasks'[i].pc \in {"done", "rejected"}
            /\ tasks'[i].pc = "done" =>
                 /\ tasks'[i].exit = "nudge"
                 /\ isGenerating' = FALSE
                 /\ out' = IF wsState = "OPEN"
                             THEN Append(out, Frame(tasks[i].rid, NUDGE, TRUE))
                             ELSE out
            /\ tasks'[i].pc = "rejected" => (out' = out /\ wsState = "OPEN")]_vars
  /\ [](\A i \in Ids :
          (tasks[i].exit = "nudge" /\ wsState = "OPEN") =>
            FramesOf(tasks[i].rid) = <<Frame(tasks[i].rid, NUDGE, TRUE)>>)

\* the first turn was answered with the nudge alone
C17_Witness ==
  /\ Len(tasks) >= 2
  /\ tasks[2].exit = "nudge"
  /\ FramesOf(1) = <<Frame(1, NUDGE, TRUE)>>
  /\ history = <<>>
  /\ isGenerating = FALSE

\* ---------------------------------------------------------------------------
\* POST /api/v1/webhooks/retell: tenantMiddleware, then handleRetellWebhook
\* ---------------------------------------------------------------------------

\* how many webhook requests arrive
MaxRequests == 3

\* req.body.agent_id: missing, or the id of no row of the agents table, of a
\* row with active = false, of a row with active = true, or an id whose
\* lookup fails with a database error
AgentIds == {"absent", "unknown", "inactive", "active", "unreachable"}

\* req.body.call_id and req.body.order_items, each missing or present
CallIds == {"absent", "call-1"}
OrderItems == {"absent", "present"}

Bodies == [agent_id : AgentIds, call_id : CallIds, order_items : OrderItems]

\* what resolveStoreContext settles with: null for PGRST116, the row's
\* context otherwise, a rejection for any other database error
resolveStoreContext(agentId) ==
  CASE agentId = "unknown"  -> [threw |-> FALSE, found |-> FALSE, active |-> FALSE]
    [] agentId = "inactive" -> [threw |-> FALSE, found |-> TRUE,  active |-> FALSE]
    [] agentId = "active"   -> [threw |-> FALSE, found |-> TRUE,  active |-> TRUE]
    [] OTHER                -> [threw |-> TRUE,  found |-> FALSE, active |-> FALSE]

\* the two tests tenantMiddleware makes on the resolved context
NoStore(ctx) == ~ctx.found
InactiveIgnored(ctx) == FALSE
Inactive(ctx) == ~ctx.active

\* the body of an error answer (it has neither received nor orderId)
ErrorBody == [received |-> FALSE, orderId |-> "undefined"]

\* the body handleRetellWebhook answers with: payload.call_id ?? null
Accepted(body) ==
  [received |-> TRUE,
   orderId  |-> IF body.call_id = "absent" THEN "null" ELSE body.call_id]

\* typeof payload.total_amount_cents === 'number'; a body is a record that
\* may or may not have the field, and the field's value carries its type
HasNumericTotal(body) ==
  IF "total_amount_cents" \in DOMAIN body
    THEN body.total_amount_cents.type = "number" ELSE FALSE

\* normalizeRetellPayload: the order id falls back to a generated one, the
\* items to the empty list, the total to 0
normalizeRetellPayload(body) ==
  [orderId |-> IF body.call_id = "absent" THEN "fallback" ELSE body.call_id,
   items   |-> IF body.order_items = "present" THEN "items" ELSE "none",
   totalAmountCents |-> IF HasNumericTotal(body)
                          THEN body.total_amount_cents.value ELSE 0,
   agentId |-> body.agent_id]

\* the deterministic job id of enqueueOrder
JobId(orderData) == <<"order", orderData.agentId, orderData.orderId>>

Request(body, pc, status, reply) ==
  [body |-> body, pc |-> pc, status |-> status, reply |-> reply,
   reached |-> FALSE, enq |-> "none"]

Event(ev, r) == [ev |-> ev, r |-> r]

\* what handleRetellWebhook does, in statement order: res.status(200).json,
\* then the call of enqueueOrder
EnqueueBeforeResponse(r) == <<Event("enqueue", r), Event("response", r)>>
ControllerSteps(r) == <<Event("response", r), Event("enqueue", r)>>

\* the controller, run synchronously by next(): it answers 200 and starts
\* the enqueue without awaiting it
handleRetellWebhook(r) ==
  /\ requests' = [requests EXCEPT
       ![r].pc = "done", ![r].status = 200,
       ![r].reply = Accepted(requests[r].body),
       ![r].reached = TRUE, ![r].enq = "pending"]
  /\ log' = log \o ControllerSteps(r)

\* an answer that ends the request before the controller
Answer(r, status) ==
  /\ requests' = [requests EXCEPT
       ![r].pc = "done", ![r].status = status, ![r].reply = ErrorBody]
  /\ log' = Append(log, Event("response", r))

\* a request arrives and tenantMiddleware runs up to its await
tenantMiddleware(body) ==
  /\ Len(requests) < MaxRequests
  /\ LET r == Len(requests) + 1 IN
       IF body.agent_id = "absent"
       THEN /\ requests' = Append(requests, Request(body, "done", 400, ErrorBody))
            /\ log' = Append(log, Event("response", r))
       ELSE /\ requests' = Append(requests, Request(body, "resolving", 0, ErrorBody))
            /\ log' = log
  /\ UNCHANGED <<jobs, vars>>

\* resolveStoreContext settles and tenantMiddleware continues: 404, 403,
\* next() into the controller, or next(err) into the global error handler
StoreResolved(r) ==
  /\ requests[r].pc = "resolving"
  /\ LET ctx == resolveStoreContext(requests[r].body.agent_id) IN
       IF ctx.threw THEN Answer(r, 500)
       ELSE IF NoStore(ctx) THEN Answer(r, 404)
       ELSE IF Inactive(ctx) THEN Answer(r, 403)
       ELSE handleRetellWebhook(r)
  /\ UNCHANGED <<jobs, vars>>

\* orderQueue.add resolves: the job is in the queue under its job id
EnqueueResolve(r) ==
  /\ requests[r].enq = "pending"
  /\ requests' = [requests EXCEPT ![r].enq = "queued"]
  /\ jobs' = jobs \cup {JobId(normalizeRetellPayload(requests[r].body))}
  /\ log' = Append(log, Event("queued", r))
  /\ UNCHANGED vars

\* orderQueue.add rejects: the failure is logged and nothing else happens
EnqueueReject(r) ==
  /\ requests[r].enq = "pending"
  /\ requests' = [requests EXCEPT ![r].enq = "failed"]
  /\ log' = Append(log, Event("enqueue_failed", r))
  /\ UNCHANGED <<jobs, vars>>

WebhookNext ==
  \/ \E body \in Bodies : tenantMiddleware(body) /\ UNCHANGED <<gvars, cvars, wvars, pvars>>
  \/ \E r \in DOMAIN requests : StoreResolved(r) /\ UNCHANGED <<gvars, cvars, wvars, pvars>>
  \/ \E r \in DOMAIN requests : EnqueueResolve(r) /\ UNCHANGED <<gvars, cvars, wvars, pvars>>
  \/ \E r \in DOMAIN requests : EnqueueReject(r) /\ UNCHANGED <<gvars, cvars, wvars, pvars>>

\* an enqueue that never settles is a behaviour in which neither
\* EnqueueResolve nor EnqueueReject is ever taken for it
WebhookSpec == Init /\ [][WebhookNext]_<<vars, hvars>>

\* ---------------------------------------------------------------------------
\* C18. Fire-and-forget webhook: a request that passed tenant resolution is
\* answered 200 with received = true and orderId echoing call_id, the answer
\* is written before the enqueue is started, every later enqueue event of the
\* request comes after its answer, and no step changes an answer once it is
\* written: enqueue pending, queued or failed, order_items present or not.
\* ---------------------------------------------------------------------------
C18_FireAndForget ==
  /\ [](\A r \in DOMAIN requests : requests[r].reached =>
          /\ requests[r].status = 200
          /\ requests[r].reply.received = TRUE
          /\ requests[r].reply.orderId =
               (IF requests[r].body.call_id = "absent" THEN "null"
                ELSE requests[r].body.call_id)
          /\ \E n \in DOMAIN log : log[n] = [ev |-> "enqueue", r |-> r]
          /\ \A n \in DOMAIN log :
               (log[n].r = r /\ log[n].ev # "response") =>
                 \E m \in 1..(n - 1) : log[m] = [ev |-> "response", r |-> r])
  /\ [][\A r \in DOMAIN requests : requests[r].status # 0 =>
          /\ requests'[r].status = requests[r].status
          /\ requests'[r].reply = requests[r].reply]_hvars

\* one accepted request without order_items whose enqueue failed, one with
\* order_items whose job is queued, one whose enqueue has not settled
C18_Witness ==
  \E r1, r2, r3 \in DOMAIN requests :
    /\ requests[r1].reached /\ requests[r1].enq = "failed"
    /\ requests[r1].body.order_items = "absent"
    /\ requests[r2].reached /\ requests[r2].enq = "queued"
    /\ requests[r2].body.order_items = "present"
    /\ requests[r2].body.call_id = "call-1"
    /\ requests[r3].reached /\ requests[r3].enq = "pending"
    /\ requests[r3].body.call_id = "absent"

\* ---------------------------------------------------------------------------
\* C19. Tenant guard: a request without agent_id is answered 400, one whose
\* agent_id resolves to no store 404, one whose store is inactive 403; for
\* none of them the controller is reached, an enqueue started or a job put
\* in the queue.
\* ---------------------------------------------------------------------------
C19_TenantGuard ==
  /\ \A r \in DOMAIN requests :
       LET agent == requests[r].body.agent_id IN
         agent \in {"absent", "unknown", "inactive"} =>
           /\ requests[r].pc = "done" =>
                requests[r].status = (CASE agent = "absent"  -> 400
                                        [] agent = "unknown" -> 404
                                        [] OTHER             -> 403)
           /\ ~requests[r].reached
           /\ requests[r].enq = "none"
           /\ \A n \in DOMAIN log : log[n].r = r => log[n].ev = "response"
  /\ \A j \in jobs : j[2] = "active"

\* the three rejections side by side
C19_Witness ==
  \E r1, r2, r3 \in DOMAIN requests :
    /\ requests[r1].status = 400 /\ requests[r1].body.agent_id = "absent"
    /\ requests[r2].status = 404 /\ requests[r2].body.agent_id = "unknown"
    /\ requests[r3].status = 403 /\ requests[r3].body.agent_id = "inactive"

\* ---------------------------------------------------------------------------
\* C20. Stale-task skip: when the serializer runs a queued turn task whose
\* captured token is no longer the session's current one, the task returns at
\* once: isGenerating, history, the token and the outbound frames are left as
\* they were and no generation is started; a task skipped this way has written
\* no frame for its response_id.
\* ---------------------------------------------------------------------------
C20_StaleTaskSkip ==
  /\ [][\A i \in Ids :
          (/\ tasks[i].kind = "turn"
           /\ CanStart(i)
           /\ abortController # i
           /\ tasks'[i] # tasks[i]) =>
             /\ tasks'[i].pc = "done"
             /\ tasks'[i].exit = "stale"
             /\ isGenerating' = isGenerating
             /\ history' = history
             /\ out' = out
             /\ abortController' = abortController]_vars
  /\ [](\A i \in Ids : tasks[i].exit = "stale" => FramesOf(tasks[i].rid) = <<>>)

\* a turn was skipped as stale on an open socket while a later turn is queued
\* behind it
C20_Witness ==
  \E i \in Ids :
    /\ tasks[i].exit = "stale"
    /\ wsState = "OPEN"
    /\ i < Len(tasks)
    /\ tasks[Len(tasks)].pc = "queued"

\* ---------------------------------------------------------------------------
\* C21. A barge-in produces silence: once a genuine barge-in (update_only
\* with turntaking = user_turn while isGenerating) has been handled, the task
\* that was executing at that moment writes no further frame, partial or
\* final, however many response_required frames came before the barge-in.
\* ---------------------------------------------------------------------------
C21_BargeInSilence ==
  [][\A i \in Ids :
       tasks[i].barged =>
         \A n \in (Len(out) + 1)..Len(out') :
           out'[n].response_id # tasks[i].rid]_vars

\* the turn task whose code is running in this step
Acting(i) ==
  /\ tasks[i].kind = "turn"
  /\ tasks'[i] # tasks[i]
  /\ \A j \in Ids \ {i} : tasks'[j] = tasks[j]

\* ---------------------------------------------------------------------------
\* C22. History is append-or-truncate only: a step that changes history is
\* taken by the one running turn task and either appends to history (one
\* turn, or the call turn and the result turn of a tool that answers without
\* waiting), leaving every existing turn as it was, or truncates history to
\* the checkpoint this task recorded when it started, which gives back the
\* history the task found.  While a turn runs, the history it found stays a
\* prefix of history, so what an earlier turn committed is never removed or
\* changed.
\* ---------------------------------------------------------------------------
C22_AppendOrTruncate ==
  /\ [][history' # history =>
          \E i \in Ids :
            /\ Acting(i)
            /\ \/ /\ Len(history') = Len(history) + 1
                  /\ SubSeq(history', 1, Len(history)) = history
               \/ /\ Len(history') = Len(history) + 2
                  /\ SubSeq(history', 1, Len(history)) = history
                  /\ history'[Len(history) + 1].kind = "functionCall"
                  /\ history'[Len(history) + 2].kind = "functionResponse"
               \/ /\ tasks[i].pc # "queued"
                  /\ Len(history') < Len(history)
                  /\ history' = SubSeq(history, 1, tasks[i].checkpoint)
                  /\ history' = tasks[i].base]_vars
  /\ [](\A i \in Ids :
          (tasks[i].kind = "turn" /\ Executing(i)) =>
            /\ tasks[i].checkpoint = Len(tasks[i].base)
            /\ tasks[i].checkpoint <= Len(history)
            /\ SubSeq(history, 1, tasks[i].checkpoint) = tasks[i].base)

\* a turn committed its two turns, and a later turn that had appended its own
\* was rolled back to them
C22_Witness ==
  \E i, j \in Ids :
    /\ i < j
    /\ tasks[i].kind = "turn" /\ tasks[i].exit = "clean"
    /\ tasks[j].kind = "turn" /\ tasks[j].exit \in {"aborted", "error"}
    /\ Len(history) >= 2
    /\ history[1].role = "user"
    /\ history[2].role = "model"

\* ---------------------------------------------------------------------------
\* C23. Recheck after every suspension point: when a running turn task whose
\* token is cancelled resumes (after the provider call, a chunk, the end of
\* the stream, the aggregated response or the tool dispatcher, returned or
\* thrown), it writes no frame, appends nothing to history, dispatches no
\* tool and starts no provider call: it enters its catch block, or it leaves
\* with history back at its checkpoint and the lock released.
\* ---------------------------------------------------------------------------
C23_RecheckAfterResume ==
  [][\A i \in Ids :
       (/\ tasks[i].kind = "turn"
        /\ i \in aborted
        /\ Executing(i)
        /\ tasks'[i].pc # tasks[i].pc) =>
          /\ out' = out
          /\ tasks'[i].pc \in {"catch", "done"}
          /\ tasks'[i].pc = "catch" => history' = history
          /\ tasks'[i].pc = "done" =>
               /\ tasks'[i].exit \in {"aborted", "error"}
               /\ history' = SubSeq(history, 1, tasks[i].checkpoint)
               /\ history' = tasks[i].base
               /\ isGenerating' = FALSE]_vars

\* a turn was cancelled after it had written a partial frame: it resumed
\* with the token cancelled, wrote nothing more and left history as it found
\* it
C23_Witness ==
  /\ \E i \in Ids :
       /\ tasks[i].kind = "turn"
       /\ tasks[i].exit = "aborted"
       /\ i \in aborted
       /\ FramesOf(tasks[i].rid) # <<>>
       /\ FinalsOf(tasks[i].rid) = <<>>
  /\ history = <<>>
  /\ isGenerating = FALSE
  /\ wsState = "OPEN"

\* ---------------------------------------------------------------------------
\* C24. Cancellation during tool dispatch: when the dispatcher returns to a
\* turn whose token was cancelled while it ran, the turn leaves at once with
\* history truncated to its checkpoint (the user turn and the tool-call turn
\* are gone), no tool-result turn appended, no second provider call and no
\* frame written.
\* ---------------------------------------------------------------------------
C24_CancelDuringTool ==
  [][\A i \in Ids :
       (/\ tasks[i].pc = "tool"
        /\ i \in aborted
        /\ tasks'[i].pc \notin {"tool", "catch"}) =>
          /\ Len(history) = tasks[i].checkpoint + 2
          /\ history[Len(history)] = ModelCallTurn(tasks[i].fc)
          /\ tasks'[i].pc = "done"
          /\ tasks'[i].exit = "aborted"
          /\ history' = tasks[i].base
          /\ Len(history') = tasks[i].checkpoint
          /\ out' = out
          /\ isGenerating' = FALSE]_vars

\* a barge-in on an open socket cancelled the turn while the dispatcher was
\* running: the user turn and the tool-call turn are in history and the
\* dispatcher is about to return
C24_Witness ==
  \E i \in Ids :
    /\ tasks[i].pc = "tool"
    /\ tasks[i].barged
    /\ i \in aborted
    /\ wsState = "OPEN"
    /\ Len(history) = tasks[i].checkpoint + 2
    /\ history[Len(history)].kind = "functionCall"

\* ---------------------------------------------------------------------------
\* generateWithAbort on its own: the promise it returns, its timer, its abort
\* listener and the provider request, for calls that may overlap (the request
\* of a call that timed out or was aborted is still in flight when the next
\* call is made)
\* ---------------------------------------------------------------------------

\* how many calls are made
MaxCalls == 2

\* the AbortSignals the calls are made with; two calls may share one
Signals == 1..MaxCalls

\* if (signal.aborted) at the top of the executor
NoPreCheck(sig) == FALSE
PreCheck(sig) == sig \in abortedSignals

\* resolve / reject of a promise: only the first call has an effect
SettleLast(promise, outcome) == outcome
Settle(promise, outcome) == IF promise = "pending" THEN outcome ELSE promise

\* clearTimeout: a timer that has fired or was never set is left as it is
clearTimeout(timer) == IF timer = "armed" THEN "cleared" ELSE timer

\* events holds what has happened to the call since it was made, in order
RejectedBeforeCall(sig) ==
  [signal |-> sig, promise |-> "aborted_before", timer |-> "none",
   listener |-> FALSE, provider |-> "none", events |-> <<>>]

PendingCall(sig) ==
  [signal |-> sig, promise |-> "pending", timer |-> "armed",
   listener |-> TRUE, provider |-> "inflight", events |-> <<>>]

\* generateWithAbort(model, contents, signal): the executor of the promise
generateWithAbort(sig) ==
  /\ Len(calls) < MaxCalls
  /\ calls' = Append(calls, IF PreCheck(sig) THEN RejectedBeforeCall(sig)
                            ELSE PendingCall(sig))
  /\ UNCHANGED <<abortedSignals, vars, hvars, cvars, wvars, pvars>>

\* onAbort: clearTimeout(timer); reject(makeAbortError(...)); the listener is
\* registered with once: true
onAbort(call) ==
  [call EXCEPT !.timer = clearTimeout(@),
               !.promise = Settle(@, "aborted_during"),
               !.listener = FALSE,
               !.events = Append(@, "abort")]

\* controller.abort() on a signal that is not aborted yet: every listener
\* registered on it runs before abort() returns
Abort(sig) ==
  /\ sig \notin abortedSignals
  /\ abortedSignals' = abortedSignals \cup {sig}
  /\ calls' = [c \in DOMAIN calls |->
                 IF calls[c].signal # sig THEN calls[c]
                 ELSE IF calls[c].listener THEN onAbort(calls[c])
                 ELSE [calls[c] EXCEPT !.events = Append(@, "abort")]]
  /\ UNCHANGED <<vars, hvars, cvars, wvars, pvars>>

\* the setTimeout callback: reject(makeAbortError('... timed out ...'))
TimerFires(c) ==
  /\ calls[c].timer = "armed"
  /\ calls' = [calls EXCEPT ![c].timer = "fired",
                            ![c].promise = Settle(@, "timed_out"),
                            ![c].events = Append(@, "timeout")]
  /\ UNCHANGED <<abortedSignals, vars, hvars, cvars, wvars, pvars>>

\* model.generateContentStream(...).then(...) or .catch(...)
ProviderSettles(c, outcome) ==
  /\ calls[c].provider = "inflight"
  /\ calls' = [calls EXCEPT ![c].provider = outcome,
                            ![c].timer = clearTimeout(@),
                            ![c].listener = FALSE,
                            ![c].promise = Settle(@, outcome),
                            ![c].events = Append(@, outcome)]
  /\ UNCHANGED <<abortedSignals, vars, hvars, cvars, wvars, pvars>>

ProviderResolves(c) == ProviderSettles(c, "resolved")
ProviderRejects(c) == ProviderSettles(c, "rejected")

GenerateNext ==
  \/ \E sig \in Signals : generateWithAbort(sig)
  \/ \E sig \in Signals : Abort(sig)
  \/ \E c \in DOMAIN calls : TimerFires(c)
  \/ \E c \in DOMAIN calls : ProviderResolves(c)
  \/ \E c \in DOMAIN calls : ProviderRejects(c)

GenerateSpec == Init /\ [][GenerateNext]_gvars

\* the outcome an event gives the promise when it is the first
OutcomeOf(event) ==
  CASE event = "abort"   -> "aborted_during"
    [] event = "timeout" -> "timed_out"
    [] OTHER             -> event

\* ---------------------------------------------------------------------------
\* C25. Race semantics of generateWithAbort: the promise settles with the
\* first of abort, timeout, provider success and provider failure, and once
\* settled it never changes, whatever happens later.  A call made with an
\* aborted signal is rejected without a provider request (and without a
\* timer); abort() on the signal of a pending call rejects it in that same
\* step, while the provider request is still in flight.
\* ---------------------------------------------------------------------------
C25_RaceSemantics ==
  /\ [](\A c \in DOMAIN calls :
          /\ calls[c].promise = "pending" => calls[c].events = <<>>
          /\ calls[c].promise \notin {"pending", "aborted_before"} =>
               /\ calls[c].events # <<>>
               /\ calls[c].promise = OutcomeOf(calls[c].events[1])
          /\ calls[c].promise = "aborted_before" =>
               /\ calls[c].provider = "none"
               /\ calls[c].timer = "none")
  /\ [][\A c \in DOMAIN calls :
          calls[c].promise # "pending" => calls'[c].promise = calls[c].promise]_gvars
  /\ [][Len(calls') > Len(calls) =>
          (calls'[Len(calls')].signal \in abortedSignals <=>
             calls'[Len(calls')].promise = "aborted_before")]_gvars
  /\ [][\A c \in DOMAIN calls :
          (/\ calls[c].promise = "pending"
           /\ calls[c].signal \notin abortedSignals
           /\ calls[c].signal \in abortedSignals') =>
             /\ calls'[c].promise = "aborted_during"
             /\ calls'[c].provider = "inflight"]_gvars

\* one call timed out, was aborted afterwards and then answered by the
\* provider; a second call on the same signal was rejected before any request
C25_Witness ==
  \E c, d \in DOMAIN calls :
    /\ calls[c].events = <<"timeout", "abort", "resolved">>
    /\ calls[c].promise = "timed_out"
    /\ calls[d].signal = calls[c].signal
    /\ calls[d].promise = "aborted_before"

C27_GreetingEphemeral ==
  /\ [](/\ wsState \in {"OPEN", "CLOSING"} => tasks # <<>>
        /\ \A i \in Ids : tasks[i].kind = "greeting" <=> i = 1
        /\ (tasks # <<>> /\ tasks[1].pc # "done") => history = <<>>)
  /\ [][\A i \in Ids :
          (tasks[i].kind = "greeting" /\ tasks'[i] # tasks[i]) =>
            /\ history' = history
            /\ \A n \in (Len(out) + 1)..Len(out') : out'[n].response_id = 0
            /\ tasks'[i].pc \in {"done", "rejected"} => ~isGenerating']_vars

\* the greeting streamed a chunk, then failed and answered with the fallback
\* text, while a turn was waiting behind it
C27_Witness ==
  /\ Len(tasks) >= 2
  /\ tasks[1].exit = "error"
  /\ tasks[2].pc = "queued"
  /\ Len(out) = 2
  /\ out[1].response_id = 0 /\ ~out[1].content_complete
  /\ out[2] = Frame(0, FALLBACK_GREETING, TRUE)
  /\ history = <<>>
  /\ ~isGenerating

\* some task's promise has rejected and the serializer's catch has not run yet
SomeRejected == \E i \in Ids : tasks[i].pc = "rejected"

\* a task is waiting directly behind one that the serializer's catch settled
WaitingBehindThrown ==
  \E i \in Ids :
    /\ tasks[i].exit = "threw"
    /\ i < Len(tasks)
    /\ tasks[i + 1].pc = "queued"

RECURSIVE JoinedText(_)
JoinedText(chunk) ==
  IF chunk = <<>> THEN <<>>
  ELSE (IF Head(chunk).kind = "text" THEN Head(chunk).text ELSE <<>>)
       \o JoinedText(Tail(chunk))

\* the contents of a sequence of frames, joined
RECURSIVE JoinedContent(_)
JoinedContent(fs) ==
  IF fs = <<>> THEN <<>> ELSE Head(fs).content \o JoinedContent(Tail(fs))

\* ---------------------------------------------------------------------------
\* C29. Clean text-only turn on an open socket: each chunk of the first
\* stream that the turn takes adds one partial frame with the request's
\* response_id and the chunk's text when that text is not empty, and no frame
\* when it is; so while the turn streams, its frames are all partial,
\* non-empty and spell the text received so far, and history is the history
\* the turn found plus its user turn.  When the stream held no tool call, the
\* turn ends by appending one model turn with the text of all chunks in order
\* and one final frame with empty content: history has grown by the user
\* turn and that model turn, and the request has exactly these frames.
\* ---------------------------------------------------------------------------
C29_CleanTextTurn ==
  /\ [][\A i \in Ids :
          (/\ tasks[i].kind = "turn" /\ tasks[i].phase = 1
           /\ tasks[i].pc = "stream" /\ tasks'[i].pc = "stream"
           /\ tasks'[i].stream # tasks[i].stream
           /\ wsState = "OPEN") =>
             LET t == JoinedText(Head(tasks[i].stream)) IN
               /\ tasks'[i].stream = Tail(tasks[i].stream)
               /\ tasks'[i].text = tasks[i].text \o t
               /\ out' = IF t = <<>> THEN out
                         ELSE Append(out, Frame(tasks[i].rid, t, FALSE))
               /\ history' = history]_vars
  /\ [](\A i \in Ids :
          (/\ tasks[i].kind = "turn" /\ tasks[i].phase = 1
           /\ tasks[i].pc \in {"stream", "resp"}
           /\ wsState = "OPEN") =>
             /\ JoinedContent(FramesOf(tasks[i].rid)) = tasks[i].text
             /\ \A n \in DOMAIN FramesOf(tasks[i].rid) :
                  /\ ~FramesOf(tasks[i].rid)[n].content_complete
                  /\ FramesOf(tasks[i].rid)[n].content # <<>>
             /\ Len(history) = tasks[i].checkpoint + 1
             /\ SubSeq(history, 1, tasks[i].checkpoint) = tasks[i].base
             /\ history[Len(history)].role = "user"
             /\ history[Len(history)].kind = "text"
             /\ history[Len(history)].text # <<>>)
  /\ [][\A i \in Ids :
          (/\ tasks[i].kind = "turn" /\ tasks[i].phase = 1
           /\ tasks[i].pc = "resp" /\ tasks[i].fc = "none"
           /\ tasks'[i].exit = "clean"
           /\ wsState = "OPEN") =>
             /\ history' = Append(history, ModelTextTurn(tasks[i].text))
             /\ out' = Append(out, Frame(tasks[i].rid, <<>>, TRUE))
             /\ FramesOf(tasks[i].rid)' =
                  Append(FramesOf(tasks[i].rid), Frame(tasks[i].rid, <<>>, TRUE))]_vars

\* the three-chunk stream a, (empty), b was answered to request 1: two
\* partial frames and the final one, and two turns in history
C29_Witness ==
  /\ Len(tasks) >= 2
  /\ tasks[2].exit = "clean"
  /\ FramesOf(1) = <<Frame(1, <<"a">>, FALSE), Frame(1, <<"b">>, FALSE),
                     Frame(1, <<>>, TRUE)>>
  /\ history = <<UserTurn(<<"h">>), ModelTextTurn(<<"a", "b">>)>>

\* ---- the connection handler on its own: several sockets, each with its
\* ---- agent_id, the await of fetchStoreData, and the frames the peer sends

MaxConns == 2
MaxFrames == 2

\* the handler has run to `await fetchStoreData(agentId)`: nothing is
\* registered on the socket yet
AwaitingStore(agent) ==
  [agentId |-> agent, pc |-> "fetch", closeCode |-> 0, queue |-> 0,
   listening |-> FALSE, llmCalls |-> 0, received |-> 0, processed |-> 0]

\* ws.close(1008, ...); return
CloseUnserved(conn) ==
  [conn EXCEPT !.pc = "rejected", !.closeCode = POLICY_VIOLATION]

\* the session object, _enqueueGeneration(... handleGreeting ...) and
\* ws.on('message', ...), which run without an await between them
SessionReady(conn) ==
  [conn EXCEPT !.pc = "session", !.queue = 1, !.listening = TRUE]

\* wss.on('connection', ...) up to its first await
OnConnection(agent) ==
  /\ Len(conns) < MaxConns
  /\ conns' = Append(conns, IF agent = "missing"
                              THEN CloseUnserved(AwaitingStore(agent))
                              ELSE AwaitingStore(agent))
  /\ UNCHANGED <<vars, hvars, gvars, wvars, pvars>>

\* the rest of the handler, once fetchStoreData has returned
StoreFetched(c) ==
  /\ conns[c].pc = "fetch"
  /\ conns' = [conns EXCEPT ![c] =
                 IF fetchStoreData(conns[c].agentId) = Null
                   THEN CloseUnserved(@) ELSE SessionReady(@)]
  /\ UNCHANGED <<vars, hvars, gvars, wvars, pvars>>

\* the enqueued greeting runs: handleGreeting calls generateWithAbort
GreetingRuns(c) ==
  /\ conns[c].queue > conns[c].llmCalls
  /\ conns' = [conns EXCEPT ![c].llmCalls = @ + 1]
  /\ UNCHANGED <<vars, hvars, gvars, wvars, pvars>>

\* the peer sends a frame: it reaches the message handler if one is
\* registered, and nothing otherwise
FrameArrives(c) ==
  /\ conns[c].received < MaxFrames
  /\ conns' = [conns EXCEPT ![c].received = @ + 1,
                            ![c].processed = IF conns[c].listening
                                               THEN @ + 1 ELSE @]
  /\ UNCHANGED <<vars, hvars, gvars, wvars, pvars>>

ConnectNext ==
  \/ \E a \in Agents : OnConnection(a)
  \/ \E c \in DOMAIN conns : StoreFetched(c)
  \/ \E c \in DOMAIN conns : GreetingRuns(c)
  \/ \E c \in DOMAIN conns : FrameArrives(c)

ConnectSpec == Init /\ [][ConnectNext]_cvars

\* C30: a connection without agent_id, or whose store has no row or has
\* is_active false, is closed with code 1008 once the handler has decided, and
\* at no time has a greeting enqueued, an LLM call issued, a message handler
\* or a processed frame; a connection whose store has is_active null ends, like
\* one whose is_active is true, with a session, the greeting enqueued, the
\* message handler registered and no close code.
C30_ConnectRejection ==
  \A c \in DOMAIN conns :
    LET conn == conns[c] IN
    /\ conn.agentId \in {"missing", "unknown", "inactive"} =>
         /\ conn.pc # "session"
         /\ conn.pc # "fetch" => conn.closeCode = POLICY_VIOLATION
         /\ conn.agentId = "missing" => conn.pc = "rejected"
         /\ conn.queue = 0
         /\ conn.llmCalls = 0
         /\ ~conn.listening
         /\ conn.processed = 0
    /\ conn.agentId \in {"unflagged", "known"} =>
         /\ conn.pc # "rejected"
         /\ conn.closeCode = 0
         /\ conn.pc = "session" => conn.queue = 1 /\ conn.listening
         /\ conn.pc = "fetch" => conn.queue = 0 /\ conn.processed = 0

\* an inactive store's connection was closed with 1008 and frames that came
\* after it went nowhere, while a store with a null flag has its session, its
\* greeting has called the model and a frame was handled
C30_Witness ==
  /\ Len(conns) = 2
  /\ conns[1].agentId = "inactive"
  /\ conns[1].pc = "rejected"
  /\ conns[1].closeCode = POLICY_VIOLATION
  /\ conns[1].received = MaxFrames
  /\ conns[2].agentId = "unflagged"
  /\ conns[2].pc = "session"
  /\ conns[2].llmCalls = 1
  /\ conns[2].processed > 0

\* C31 (non-JSON frame): the step in which the server starts closing an open
\* socket happens only for a frame that JSON.parse rejects; it gives
\* ws.close the code 1003 and leaves session.abortController, the aborted
\* signals, session.history, session.isGenerating, the queue and its tasks
\* and the frames written exactly as they were; and the code 1003 is never
\* seen on a socket that is not closing or closed.
C31_NonJsonFrame ==
  /\ [][(wsState = "OPEN" /\ wsState' = "CLOSING") =>
          /\ closeCode = 0
          /\ closeCode' = UNSUPPORTED_DATA
          /\ abortController' = abortController
          /\ aborted' = aborted
          /\ history' = history
          /\ isGenerating' = isGenerating
          /\ tasks' = tasks
          /\ out' = out]_vars
  /\ [](closeCode = UNSUPPORTED_DATA => wsState \in {"CLOSING", "CLOSED"})
  /\ [][closeCode' # closeCode =>
          closeCode' \in {POLICY_VIOLATION, UNSUPPORTED_DATA}]_vars

\* the bad frame came while a turn was streaming behind a queued turn: the
\* socket is closing with 1003, the lock is held, the token is uncancelled
\* and history still has the turn's user entry
C31_Witness ==
  /\ wsState = "CLOSING"
  /\ closeCode = UNSUPPORTED_DATA
  /\ isGenerating
  /\ abortController \in Ids
  /\ abortController \notin aborted
  /\ \E i \in Ids : tasks[i].kind = "turn" /\ tasks[i].pc = "stream"
  /\ history # <<>>

\* C32 (a barge-in hits the running task): in a step of the message handler
\* that cancels a token while a turn task is executing, every token
\* cancelled is the one of an executing task and none is the token of a task
\* still queued.
C32_BargeInHitsRunning ==
  [][(/\ aborted' # aborted
      /\ wsState' = wsState
      /\ \E i \in Ids : tasks[i].kind = "turn" /\ Executing(i)) =>
       \A k \in aborted' \ aborted :
         /\ k \in Ids
         /\ tasks[k].pc # "queued"
         /\ Executing(k)]_vars

\* the turn task i is about to be dequeued with its own token cancelled and
\* still installed as session.abortController
CancelledAtDequeue(i) ==
  /\ tasks[i].kind = "turn"
  /\ CanStart(i)
  /\ i \in aborted
  /\ abortController = i

\* no frame written in this step carries the response_id of task i
NoFrameOf(i) ==
  \A n \in (Len(out) + 1)..Len(out') : out'[n].response_id # tasks[i].rid

PersistNext ==
  \/ \E a \in Agents : Connect(a) /\ UNCHANGED <<apart, rows>>
  \/ \E tt \in Turntakings : UpdateOnly(tt) /\ UNCHANGED <<apart, rows>>
  \/ \E tr \in Transcripts : ResponseRequired(tr) /\ UNCHANGED <<apart, rows>>
  \/ OtherFrame /\ UNCHANGED <<apart, rows>>
  \/ NonJsonFrame /\ UNCHANGED <<apart, rows>>
  \/ Close /\ UNCHANGED <<apart, rows>>
  \/ \E i \in Ids : StartGreeting(i) /\ UNCHANGED <<apart, rows>>
  \/ \E i \in Ids : StartStale(i) /\ UNCHANGED <<apart, rows>>
  \/ \E i \in Ids : StartMalformed(i) /\ UNCHANGED <<apart, rows>>
  \/ \E i \in Ids : StartNudge(i) /\ UNCHANGED <<apart, rows>>
  \/ \E i \in Ids : StartTurn(i) /\ UNCHANGED <<apart, rows>>
  \/ \E i \in Ids : SafetyNet(i) /\ UNCHANGED <<apart, rows>>
  \/ \E i \in Ids : CatchTurn(i) /\ UNCHANGED <<apart, rows>>
  \/ \E i \in Ids : CatchGreeting(i) /\ UNCHANGED <<apart, rows>>
  \/ \E i \in Ids, st \in Streams : GenResolve(i, st) /\ UNCHANGED <<apart, rows>>
  \/ \E i \in Ids : GenReject(i) /\ UNCHANGED <<apart, rows>>
  \/ \E i \in Ids : GenTimeout(i) /\ UNCHANGED <<apart, rows>>
  \/ \E i \in Ids : StreamChunk(i) /\ UNCHANGED <<apart, rows>>
  \/ \E i \in Ids : StreamEnd(i) /\ UNCHANGED <<apart, rows>>
  \/ \E i \in Ids : StreamError(i) /\ UNCHANGED <<apart, rows>>
  \/ \E i \in Ids : StreamStall(i) /\ UNCHANGED <<apart, rows>>
  \/ \E i \in Ids : RespResolve(i) /\ UNCHANGED <<apart, rows>>
  \/ \E i \in Ids : RespReject(i) /\ UNCHANGED <<apart, rows>>
  \/ \E i \in Ids, p \in DbPayloads : ToolReturn(i, p) /\ InsertStored(i, p)
       /\ UNCHANGED apart
  \/ \E i \in Ids : ToolThrow(i) /\ UNCHANGED <<apart, rows>>

PersistSpec == Init /\ [][PersistNext]_<<vars, pvars>>

\* the tool_result turns in history that report a stored row
StoredResults ==
  SelectSeq(history, LAMBDA t : /\ t.kind = "functionResponse"
                                /\ t.name \in DbTools
                                /\ t.payload = "success")

\* C34 (persistence and history agree): whenever no task is executing, there
\* are as many stored rows as tool_result turns in history that report one,
\* and no turn that ended by a rollback (cancelled, or failed) has stored a
\* row.
C34_PersistenceAgrees ==
  (\A i \in Ids : ~Executing(i)) =>
    /\ Cardinality(rows) = Len(StoredResults)
    /\ \A i \in Ids :
         (tasks[i].kind = "turn" /\ tasks[i].exit \in {"aborted", "error"}) =>
           tasks[i].rid \notin rows

\* this step takes task i into a generateWithAbort call that issues
\* model.generateContentStream
StartsLLMCall(i) == tasks'[i].pc = "gen" /\ tasks[i].pc # "gen"

\* this step pushes a functionCall turn, which handleTranscript does just
\* before it calls executeFunctionCall
StartsDispatch ==
  \E n \in (Len(history) + 1)..Len(history') : history'[n].kind = "functionCall"

\* C35 (nothing new starts after close): once the close handler has run, no
\* step of any task issues a new provider call or dispatches a tool, whatever
\* token the task runs under.
C35_NothingNewAfterClose ==
  [][wsState = "CLOSED" =>
       /\ \A i \in Ids : ~StartsLLMCall(i)
       /\ ~StartsDispatch]_vars

\* C36 (a cancelled greeting stays silent): once the signal of the greeting's
\* own controller is aborted, no step writes a frame with response_id 0.
C36_CancelledGreetingSilent ==
  [][(tasks # <<>> /\ 1 \in aborted) =>
       \A n \in (Len(out) + 1)..Len(out') : out'[n].response_id # 0]_vars

\* C37 (cleanup of generateWithAbort): whenever the promise of a call has
\* settled, by the provider's answer or failure, by abort() or by the timer,
\* the abort listener of the call is no longer registered on its signal and
\* its timer is not armed.
C37_Cleanup ==
  \A c \in DOMAIN calls :
    calls[c].promise # "pending" =>
      /\ ~calls[c].listener
      /\ calls[c].timer # "armed"

\* ---- the order queue's worker on its own: webhook payloads with their
\* ---- total_amount_cents, the job each becomes, and the stages of
\* ---- processOrderJob

MaxJobs == 2

\* defaultJobOptions.attempts
ATTEMPTS == 3

\* payload.total_amount_cents: a number, a string, or not there
Cents(n) == [type |-> "number", value |-> n]
Totals == {[type |-> "undefined", value |-> 0], [type |-> "string", value |-> 0],
           Cents(0), Cents(1250)}

\* the payloads of an active tenant; call_id may also be the empty string
WorkerBodies ==
  [agent_id : {"active"}, call_id : CallIds \cup {""}, order_items : OrderItems,
   total_amount_cents : Totals]

\* storeContext.paymentType
Gateways == {"MAVERICK", "STRIPE"}

\* validateOrderPayload: the names of the fields it finds missing.  items is
\* an array whenever the data came through normalizeRetellPayload, and
\* totalAmountCents is of type number there
validateOrderPayload(orderData) ==
  (IF orderData.orderId = "" THEN {"orderId"} ELSE {})
    \cup (IF orderData.totalAmountCents \notin Int THEN {"totalAmountCents"} ELSE {})

\* enqueueOrder: the job as orderQueue.add stores it; numeric says whether
\* the payload it came from had a numeric total_amount_cents, and pos and
\* pay count the runs of the two stages
Job(body, gateway) ==
  [id |-> JobId(normalizeRetellPayload(body)),
   orderData |-> normalizeRetellPayload(body),
   paymentType |-> gateway,
   numeric |-> HasNumericTotal(body),
   state |-> "waiting", attemptsMade |-> 0, unrecoverable |-> FALSE,
   pos |-> 0, pay |-> 0]

\* orderQueue.add with a job id that is not in the queue yet
enqueueOrder(body, gateway) ==
  /\ Len(work) < MaxJobs
  /\ \A j \in DOMAIN work : work[j].id # JobId(normalizeRetellPayload(body))
  /\ work' = Append(work, Job(body, gateway))
  /\ UNCHANGED <<vars, hvars, gvars, cvars, pvars>>

\* throw new UnrecoverableError(...): the job fails and is not retried
FailForGood(job) ==
  [job EXCEPT !.state = "failed", !.unrecoverable = TRUE,
              !.attemptsMade = @ + 1]

\* any other error thrown by the processor: retried until attempts are used up
FailMayRetry(job) ==
  [job EXCEPT !.state = IF job.attemptsMade + 1 < ATTEMPTS THEN "waiting"
                        ELSE "failed",
              !.attemptsMade = @ + 1]

\* processOrderJob, stage 1: validateOrderPayload(orderData, job)
ValidateStage(j) ==
  /\ work[j].state = "waiting"
  /\ work' = [work EXCEPT ![j] =
                IF validateOrderPayload(work[j].orderData) # {}
                  THEN FailForGood(@) ELSE [@ EXCEPT !.state = "validated"]]
  /\ UNCHANGED <<vars, hvars, gvars, cvars, pvars>>

\* processOrderJob, stage 2: processPosStage
processPosStage(j) ==
  /\ work[j].state = "validated"
  /\ work' = [work EXCEPT ![j].state = "pos_done", ![j].pos = @ + 1]
  /\ UNCHANGED <<vars, hvars, gvars, cvars, pvars>>

\* what paymentAdapter.processPayment can do: MaverickAdapter throws a
\* PaymentError for an amount that is not a positive integer; otherwise the
\* gateway approves (or opens a checkout), declines, or the call throws
PaymentOutcomes(job) ==
  IF job.paymentType = "MAVERICK" /\ job.orderData.totalAmountCents <= 0
    THEN {"threw"}
    ELSE {"approved", "declined", "threw"}

\* processOrderJob, stage 3 and the return: processPaymentStage
processPaymentStage(j, outcome) ==
  /\ work[j].state = "pos_done"
  /\ outcome \in PaymentOutcomes(work[j])
  /\ work' = [work EXCEPT ![j] =
                LET paid == [@ EXCEPT !.pay = @ + 1] IN
                CASE outcome = "approved" -> [paid EXCEPT !.state = "completed"]
                  [] outcome = "declined" -> FailForGood(paid)
                  [] OTHER -> FailMayRetry(paid)]
  /\ UNCHANGED <<vars, hvars, gvars, cvars, pvars>>

WorkerNext ==
  \/ \E body \in WorkerBodies, g \in Gateways : enqueueOrder(body, g)
  \/ \E j \in DOMAIN work : ValidateStage(j)
  \/ \E j \in DOMAIN work : processPosStage(j)
  \/ \E j \in DOMAIN work, o \in {"approved", "declined", "threw"} :
       processPaymentStage(j, o)

WorkerSpec == Init /\ [][WorkerNext]_wvars

\* C38 (invalid payloads are stopped by the worker): a job whose payload had
\* no numeric total_amount_cents never passes validation: the POS stage and
\* the payment stage never run for it, and once the worker has taken it, it
\* has failed for good after one attempt.
C38_InvalidPayloadStopped ==
  \A j \in DOMAIN work :
    ~work[j].numeric =>
      /\ work[j].pos = 0
      /\ work[j].pay = 0
      /\ work[j].state \in {"waiting", "failed"}
      /\ work[j].state = "failed" =>
           (work[j].unrecoverable /\ work[j].attemptsMade = 1)
      /\ work[j].state = "waiting" => work[j].attemptsMade = 0

====
